---- MODULE Spec2Model ----
(***************************************************************************)
(* A model of covid.py: the command-line run of main (global summary,      *)
(* country summary, historical fetch and plot) and the time-series         *)
(* pipeline of plot_new_cases (parse the date keys, sort by date, first    *)
(* difference, 7-day rolling mean, chart sink).                            *)
(*                                                                         *)
(* Conventions.  A Python value that may be None / absent is a sequence of *)
(* length 0 (None) or 1 (Some(x)).  A Python str whose characters matter   *)
(* (a date key, the lastdays parameter) is a sequence of one-character     *)
(* strings.  A dict whose insertion order matters (the cases curve) is a   *)
(* sequence of [key, value] entries with pairwise distinct keys.           *)
(***************************************************************************)
EXTENDS Integers, Sequences, FiniteSets, TLC

VARIABLES
    pc,         \* position of the run: "global", "branch", "country",
                \* "historical", "plot_call" (a direct call of plot_new_cases), "done"
    argv,       \* the command line as given: [country, days, saveplot], each optional
    args,       \* the parsed Namespace: [country, days, saveplot]
    requests,   \* the HTTP GET requests issued so far, in order
    stdout,     \* the console lines printed so far, in order
    exitCode,   \* None while running, then Some(process exit code)
    stage,      \* outcome of each stage: [global, country, historical]
    hist,       \* None, or Some(historical_json) handed to plot_new_cases
    plot        \* the locals and effects of plot_new_cases (see PlotIdle)

vars == <<pc, argv, args, requests, stdout, exitCode, stage, hist, plot>>

(***************************************************************************)
(* Bounds of the model.                                                    *)
(***************************************************************************)
MaxLen == 3         \* longest shuffled cases curve
LongLen == 9        \* length of the long, date-ordered cases curves
MaxRunLen == 2      \* longest cases curve a modelled run of main receives

None == <<>>
Some(x) == <<x>>
IsNone(o) == Len(o) = 0
Val(o) == o[1]

(***************************************************************************)
(* Text: characters, their order, decimal digits.                          *)
(***************************************************************************)
Digits == <<"0", "1", "2", "3", "4", "5", "6", "7", "8", "9">>

IsDigit(c) == \E i \in 1..10 : Digits[i] = c

DigitVal(c) == (CHOOSE i \in 1..10 : Digits[i] = c) - 1

RECURSIVE DecimalValue(_)
\* int(text) for a non-empty string of decimal digits
DecimalValue(t) ==
    IF Len(t) = 0 THEN 0
    ELSE 10 * DecimalValue(SubSeq(t, 1, Len(t) - 1)) + DigitVal(t[Len(t)])

AllDigits(t) == \A i \in 1..Len(t) : IsDigit(t[i])

RECURSIVE NatStr(_)
\* the decimal text of a natural number
NatStr(n) ==
    IF n < 10 THEN <<Digits[n + 1]>>
    ELSE NatStr(n \div 10) \o <<Digits[(n % 10) + 1]>>

\* The two kinds of value days_param takes: a str and an int
PyStr(s) == [kind |-> "str", s |-> s, n |-> 0]
PyInt(n) == [kind |-> "int", s |-> <<>>, n |-> n]

\* str(x): a str is itself, an int is its decimal text
Str(x) ==
    IF x.kind = "str" THEN x.s
    ELSE IF x.n < 0 THEN <<"-">> \o NatStr(0 - x.n)
    ELSE NatStr(x.n)

(***************************************************************************)
(* pd.to_datetime(index, format="%m/%d/%y"): each key is month/day/year,   *)
(* month and day of one or two digits, the year of exactly two; years      *)
(* 00..68 are 2000..2068 and 69..99 are 1969..1999.  A key that is not a   *)
(* date of that form raises ValueError (None here).  A date is its         *)
(* proleptic Gregorian ordinal.                                            *)
(***************************************************************************)
IsLeap(y) == (y % 4 = 0) /\ ((y % 100 # 0) \/ (y % 400 = 0))

DaysInMonth(y, m) ==
    IF m = 2 THEN (IF IsLeap(y) THEN 29 ELSE 28)
    ELSE IF m \in {4, 6, 9, 11} THEN 30 ELSE 31

RECURSIVE DaysBeforeMonth(_, _)
DaysBeforeMonth(y, m) ==
    IF m = 1 THEN 0 ELSE DaysBeforeMonth(y, m - 1) + DaysInMonth(y, m - 1)

Ordinal(y, m, d) ==
    (y - 1) * 365 + ((y - 1) \div 4) - ((y - 1) \div 100) + ((y - 1) \div 400)
        + DaysBeforeMonth(y, m) + d

FullYear(yy) == IF yy <= 68 THEN 2000 + yy ELSE 1900 + yy

ParseDate(t) ==
    LET sl == {i \in 1..Len(t) : t[i] = "/"} IN
    IF Cardinality(sl) # 2 THEN None
    ELSE
        LET a  == CHOOSE i \in sl : \A j \in sl : i <= j
            b  == CHOOSE i \in sl : \A j \in sl : i >= j
            mt == SubSeq(t, 1, a - 1)
            dt == SubSeq(t, a + 1, b - 1)
            yt == SubSeq(t, b + 1, Len(t))
        IN  IF ~(AllDigits(mt) /\ AllDigits(dt) /\ AllDigits(yt)) THEN None
            ELSE IF ~(Len(mt) \in 1..2 /\ Len(dt) \in 1..2 /\ Len(yt) = 2) THEN None
            ELSE
                LET m == DecimalValue(mt)
                    d == DecimalValue(dt)
                    y == FullYear(DecimalValue(yt))
                IN  IF m \in 1..12 /\ d >= 1 /\ d <= DaysInMonth(y, m)
                    THEN Some(Ordinal(y, m, d))
                    ELSE None

(***************************************************************************)
(* The historical JSON.  historical_json is                                *)
(*   [country, timeline, cases]: the optional "country" label, the         *)
(*   optional "timeline" dict and an optional top-level "cases" key (the   *)
(*   payload may be a bare timeline).  A timeline dict is                  *)
(*   [cases, others]: its optional "cases" curve and whether it holds any  *)
(*   other curve ("deaths", "recovered").                                  *)
(***************************************************************************)
\* bool(d) for a timeline dict: an empty dict is falsy
DictTruthy(tl) == ~IsNone(tl.cases) \/ tl.others

\* line 79: historical_json.get("timeline") or historical_json
Timeline(json) ==
    IF ~IsNone(json.timeline) /\ DictTruthy(Val(json.timeline))
    THEN Val(json.timeline)
    ELSE [cases |-> json.cases, others |-> TRUE]

\* line 80: timeline.get("cases")
GetCases(json) == Timeline(json).cases

\* a guard "cases is None" lets an empty curve through
NoCasesOnlyNone(cases) == IsNone(cases)

\* line 81: not cases (None, or a dict with no entry)
NoCases(cases) == IsNone(cases) \/ Len(Val(cases)) = 0

(***************************************************************************)
(* Lines 85-88: the Series of the curve, its index parsed, sorted by index.*)
(***************************************************************************)
\* the parsed index, one optional date per entry, in the dict's order
ParsedIndex(curve) == [i \in 1..Len(curve) |-> ParseDate(curve[i].key)]

ParseFails(curve) == \E i \in 1..Len(curve) : IsNone(ParsedIndex(curve)[i])

\* the Series after line 87: (date, cumulative_cases) in the dict's order
Series(curve) ==
    [i \in 1..Len(curve) |-> [date |-> Val(ParseDate(curve[i].key)),
                              value |-> curve[i].value]]

IsMonotonicIncreasing(s) == \A i \in 1..(Len(s) - 1) : s[i].date <= s[i + 1].date

Perms(n) == {p \in [1..n -> 1..n] : \A i, j \in 1..n : p[i] = p[j] => i = j}

\* the Series left in the dict's order (the sorted copy dropped)
SortOrdersUnsorted(s) == {[i \in 1..Len(s) |-> i]}

\* sort_index: an index that is already non-decreasing is left as it is;
\* otherwise the argsort of the dates (quicksort, which is not stable: equal
\* dates may come out in either order)
SortOrders(s) ==
    IF IsMonotonicIncreasing(s) THEN {[i \in 1..Len(s) |-> i]}
    ELSE {p \in Perms(Len(s)) :
            \A i \in 1..(Len(s) - 1) : s[p[i]].date <= s[p[i + 1]].date}

Take(s, p) == [i \in 1..Len(s) |-> s[p[i]]]

SortIndex(s) == {Take(s, p) : p \in SortOrders(s)}

(***************************************************************************)
(* Lines 91-93: first difference, fillna(0), rolling(7, min_periods=1).mean*)
(***************************************************************************)
WINDOW == 7
MIN_PERIODS == 1

\* a difference that takes the first cumulative value as the first delta
DiffFromZero(s) ==
    [i \in 1..Len(s) |->
        IF i = 1 THEN Some(s[1].value) ELSE Some(s[i].value - s[i - 1].value)]

\* a difference taken the wrong way round
DiffReversed(s) ==
    [i \in 1..Len(s) |-> IF i = 1 THEN None ELSE Some(s[i - 1].value - s[i].value)]

\* Series.diff(): NaN (None) at the first position, then value[i] - value[i-1]
Diff(s) ==
    [i \in 1..Len(s) |-> IF i = 1 THEN None ELSE Some(s[i].value - s[i - 1].value)]

\* Series.fillna(v)
FillNa(d, v) == [i \in 1..Len(d) |-> IF IsNone(d[i]) THEN v ELSE Val(d[i])]

RECURSIVE RollSumExpanding(_, _)
\* a running sum that never drops the value leaving the window
RollSumExpanding(x, i) ==
    IF i = 0 THEN 0 ELSE RollSumExpanding(x, i - 1) + x[i]

RECURSIVE RollSum(_, _)
\* the running window sum at position i: each new value is added, and
\* the value that leaves the window of WINDOW positions is removed
RollSum(x, i) ==
    IF i = 0 THEN 0
    ELSE RollSum(x, i - 1) + x[i] - (IF i > WINDOW THEN x[i - WINDOW] ELSE 0)

RECURSIVE RollObs(_)
\* the number of observations in the window at position i
RollObs(i) ==
    IF i = 0 THEN 0
    ELSE RollObs(i - 1) + 1 - (IF i > WINDOW THEN 1 ELSE 0)

\* rolling(window, min_periods).mean(): the mean sum/nobs as the fraction
\* [num, den], NaN (None) where fewer than min_periods observations
RollingMean(x) ==
    [i \in 1..Len(x) |->
        IF RollObs(i) >= MIN_PERIODS
        THEN Some([num |-> RollSum(x, i), den |-> RollObs(i)])
        ELSE None]

(***************************************************************************)
(* plot_new_cases(historical_json, savepath, country_label).  The result   *)
(* is the set of outcomes: the exception raised (if any), the locals, the  *)
(* figure, the file written, whether the display was opened and the lines  *)
(* printed.  render_ok says whether the sink (savefig / show) succeeds.    *)
(***************************************************************************)
\* a printed line with one plain argument (a name, an exception)
TextLine(tag, arg) == [tag |-> tag, arg |-> arg, vals |-> <<>>]

PlotIdle ==
    [called |-> FALSE, raised |-> None, df |-> <<>>, new_cases |-> <<>>,
     new_cases_7d |-> <<>>, figure |-> None, saved |-> None, shown |-> FALSE,
     printed |-> <<>>]

PlotRaise(msg) == [PlotIdle EXCEPT !.called = TRUE, !.raised = Some(msg)]

PlotRender(df, savepath, label, render_ok) ==
    LET new_cases    == FillNa(Diff(df), 0)
        new_cases_7d == RollingMean(new_cases)
        fig == [lines |-> <<"Daily new cases", "7-day average">>,
                title |-> label]
        base == [PlotIdle EXCEPT !.called = TRUE, !.df = df,
                                 !.new_cases = new_cases,
                                 !.new_cases_7d = new_cases_7d,
                                 !.figure = Some(fig)]
    IN  IF ~render_ok THEN [base EXCEPT !.raised = Some("OSError")]
        ELSE IF ~IsNone(savepath) /\ Val(savepath) # ""
        THEN [base EXCEPT !.saved = savepath,
                          !.printed = <<TextLine("Saved plot to:", Val(savepath))>>]
        ELSE [base EXCEPT !.shown = TRUE]

plot_new_cases(json, savepath, label, render_ok) ==
    LET cases == GetCases(json) IN
    IF NoCases(cases)
    THEN {PlotRaise("ValueError: No 'cases' data in historical data")}
    ELSE IF ParseFails(Val(cases))
    THEN {PlotRaise("ValueError: time data does not match format")}
    ELSE {PlotRender(df, savepath, label, render_ok) :
            df \in SortIndex(Series(Val(cases)))}

(***************************************************************************)
(* Inputs: date keys, cases curves, historical payloads.                   *)
(***************************************************************************)
Key(m, d, y) == m \o <<"/">> \o d \o <<"/">> \o y

KeyPool ==
    { Key(<<"2">>, <<"1">>, <<"2", "0">>),             \* 2/1/20
      Key(<<"0", "2">>, <<"0", "1">>, <<"2", "0">>),   \* 02/01/20, the same day
      Key(<<"1", "0">>, <<"1">>, <<"2", "0">>),        \* 10/1/20
      Key(<<"1", "2">>, <<"3", "1">>, <<"9", "9">>),   \* 12/31/99, in 1999
      Key(<<"2">>, <<"3", "0">>, <<"2", "0">>) }       \* 2/30/20, no such day

CountValues == {0, 3, 5}

Entries(ks, vs) == [i \in 1..Len(ks) |-> [key |-> ks[i], value |-> vs[i]]]

\* the sequences of at most n pairwise distinct keys of a pool
KeySeqs(pool, n) ==
    UNION {{ks \in [1..k -> pool] : \A i, j \in 1..k : ks[i] = ks[j] => i = j}
            : k \in 0..n}

\* the curves of at most n entries over a pool of keys, in every order
Curves(pool, n) ==
    UNION {{Entries(ks, vs) : vs \in [1..Len(ks) -> CountValues]}
            : ks \in KeySeqs(pool, n)}

ShortCurves(n) == Curves(KeyPool, n)

StepValues == {0, 3}

RECURSIVE Cumulative(_, _)
Cumulative(steps, i) ==
    IF i = 1 THEN 10 ELSE Cumulative(steps, i - 1) + steps[i - 1]

\* a curve of consecutive days of one month, given its cumulative counts
DailyCurve(month, first, counts) ==
    [i \in 1..Len(counts) |->
        [key |-> Key(month, NatStr(first + i - 1), <<"2", "0">>),
         value |-> counts[i]]]

LongCurves ==
    {DailyCurve(<<"3">>, 1, [i \in 1..LongLen |-> Cumulative(steps, i)])
        : steps \in [1..(LongLen - 1) -> StepValues]}

ExampleCases == <<10, 10, 12, 15, 15, 20, 25, 30, 30, 31>>
ExampleCurve == DailyCurve(<<"1">>, 22, ExampleCases)

Nested(country, cases) ==
    [country |-> country,
     timeline |-> Some([cases |-> cases, others |-> TRUE]),
     cases |-> None]

Bare(cases) == [country |-> None, timeline |-> None, cases |-> cases]

EmptyTimeline(cases) ==
    [country |-> Some("India"),
     timeline |-> Some([cases |-> None, others |-> FALSE]),
     cases |-> cases]

OddPayloads(curves) ==
    {Nested(Some("India"), None), Nested(None, None), Bare(None),
     EmptyTimeline(None)}
    \cup {Bare(Some(c)) : c \in curves}
    \cup {EmptyTimeline(Some(c)) : c \in curves}

PlotPayloads ==
    {Nested(Some("India"), Some(c)) :
        c \in ShortCurves(MaxLen) \cup LongCurves \cup {ExampleCurve}}
    \cup OddPayloads(ShortCurves(1))

SavePaths == {None, Some("plot.png")}

(***************************************************************************)
(* A direct call of plot_new_cases on one payload.                         *)
(***************************************************************************)
NoArgs == [country |-> None, days |-> None, saveplot |-> None]
NoStage == [global |-> "pending", country |-> "pending", historical |-> "pending"]

PlotInit ==
    /\ pc = "plot_call"
    /\ argv \in {[NoArgs EXCEPT !.saveplot = sp] : sp \in SavePaths}
    /\ args = [country |-> None, days |-> 365, saveplot |-> argv.saveplot]
    /\ requests = <<>>
    /\ stdout = <<>>
    /\ exitCode = None
    /\ stage = NoStage
    /\ hist \in {Some(j) : j \in PlotPayloads}
    /\ plot = PlotIdle

PlotCall ==
    /\ pc = "plot_call"
    /\ \E render_ok \in BOOLEAN :
         \E r \in plot_new_cases(Val(hist), args.saveplot, "Country", render_ok) :
            /\ plot' = r
            /\ stdout' = stdout \o r.printed
    /\ pc' = "done"
    /\ UNCHANGED <<argv, args, requests, exitCode, stage, hist>>

PlotNext == PlotCall

PlotSpec == PlotInit /\ [][PlotNext]_vars

(***************************************************************************)
(* The summary formatters.  A summary record is [counters, country]: the   *)
(* numeric fields present in the JSON object, by key, and the optional     *)
(* "country" field.                                                        *)
(***************************************************************************)
\* dict.get(key): None when the key is absent
Get(counters, key) ==
    IF key \in DOMAIN counters THEN Some(counters[key]) ELSE None

\* dict.get(key, default)
GetOr(o, default) == IF IsNone(o) THEN default ELSE Val(o)

Pad3(n) == <<Digits[(n \div 100) + 1], Digits[((n \div 10) % 10) + 1], Digits[(n % 10) + 1]>>

RECURSIVE Grouped(_)
\* format(n, ","): decimal text with thousands separators
Grouped(n) ==
    IF n < 1000 THEN NatStr(n)
    ELSE Grouped(n \div 1000) \o <<",">> \o Pad3(n % 1000)

\* a printed line that shows formatted fields
FieldLine(tag, vals) == [tag |-> tag, arg |-> "", vals |-> vals]

\* An f-string line f"...{data.get(k):,}..." for the keys ks: format(None, ",")
\* raises TypeError, so the line is printed only if every key is present
Formattable(counters, ks) == \A i \in 1..Len(ks) : ks[i] \in DOMAIN counters

FormatLine(counters, tag, ks) ==
    FieldLine(tag, [i \in 1..Len(ks) |-> Grouped(counters[ks[i]])])

RECURSIVE PrintLines(_, _, _)
\* the lines of a summary, printed one after another from line i on, up to
\* the first that raises
PrintLines(counters, lines, i) ==
    IF i > Len(lines) THEN [printed |-> <<>>, raised |-> None]
    ELSE IF ~Formattable(counters, lines[i].keys)
    THEN [printed |-> <<>>, raised |-> Some("TypeError")]
    ELSE LET rest == PrintLines(counters, lines, i + 1)
         IN  [rest EXCEPT !.printed =
                <<FormatLine(counters, lines[i].tag, lines[i].keys)>> \o @]

GlobalLines ==
    << [tag |-> "  Cases", keys |-> <<"cases">>],
       [tag |-> "  Today Cases", keys |-> <<"todayCases">>],
       [tag |-> "  Deaths", keys |-> <<"deaths">>],
       [tag |-> "  Today Deaths", keys |-> <<"todayDeaths">>],
       [tag |-> "  Recovered", keys |-> <<"recovered">>],
       [tag |-> "  Active", keys |-> <<"active">>],
       [tag |-> "  Critical", keys |-> <<"critical">>] >>

CountryLines ==
    << [tag |-> "  Cases (Today)", keys |-> <<"cases", "todayCases">>],
       [tag |-> "  Deaths (Today)", keys |-> <<"deaths", "todayDeaths">>],
       [tag |-> "  Recovered", keys |-> <<"recovered">>],
       [tag |-> "  Active", keys |-> <<"active">>],
       [tag |-> "  Tests", keys |-> <<"tests">>],
       [tag |-> "  Population", keys |-> <<"population">>] >>

\* the "Updated" line: the epoch-millis field, 0 when absent, shown here as
\* its whole seconds (the strftime rendering is not modelled)
UpdatedLine(counters) ==
    FieldLine("  Updated", <<NatStr(GetOr(Get(counters, "updated"), 0) \div 1000)>>)

pretty_print_global(data) ==
    LET rest == PrintLines(data.counters, GlobalLines, 1)
    IN  [rest EXCEPT !.printed =
            <<TextLine("Global summary:", ""), UpdatedLine(data.counters)>> \o @]

pretty_print_country(data) ==
    LET country == GetOr(data.country, "Unknown")
        rest == PrintLines(data.counters, CountryLines, 1)
    IN  [rest EXCEPT !.printed =
            <<TextLine("summary:", country), UpdatedLine(data.counters)>> \o @]

(***************************************************************************)
(* The API client: each fetch issues one GET and returns the parsed JSON   *)
(* or raises.                                                              *)
(***************************************************************************)
Request(op, country, param, value) ==
    [op |-> op, country |-> country, param |-> param, value |-> value]

fetch_global_summary == Request("all", "", "", <<>>)

fetch_country_summary(country) ==
    Request("countries", country, "strict", <<"T", "r", "u", "e">>)

fetch_country_historical(country, days) ==
    Request("historical", country, "lastdays", Str(days))

\* what a fetch can raise: raise_for_status, the transport, r.json()
HTTPError == "HTTPError: 500 Server Error"
FetchErrors == {HTTPError, "ConnectionError", "JSONDecodeError"}

SampleCount == 1234567

GlobalKeys == {"updated", "cases", "todayCases", "deaths", "todayDeaths",
               "recovered", "active", "critical"}
CountryKeys == {"updated", "cases", "todayCases", "deaths", "todayDeaths",
                "recovered", "active", "tests", "population"}

Summaries(keys, countries) ==
    {[counters |-> [k \in present |-> SampleCount], country |-> c]
        : present \in SUBSET keys, c \in countries}

GlobalSummaries == Summaries(GlobalKeys, {None})
CountrySummaries == Summaries(CountryKeys, {None, Some("India")})

RunKeyPool ==
    { Key(<<"2">>, <<"1">>, <<"2", "0">>),             \* 2/1/20
      Key(<<"1", "0">>, <<"1">>, <<"2", "0">>),        \* 10/1/20
      Key(<<"2">>, <<"3", "0">>, <<"2", "0">>) }       \* 2/30/20, no such day

RunPayloads ==
    {Nested(Some("India"), Some(c)) : c \in Curves(RunKeyPool, MaxRunLen)}
    \cup {Nested(None, Some(c)) : c \in Curves(RunKeyPool, 1)}
    \cup OddPayloads(Curves(RunKeyPool, 1))

(***************************************************************************)
(* main.                                                                   *)
(***************************************************************************)
DEFAULT_DAYS == 365

Argvs ==
    [country : {None, Some(""), Some("India")},
     days : {None, Some(0 - 1), Some(0), Some(7)},
     saveplot : SavePaths]

\* parse_args: --days defaults to 365, the others to None
ParseArgs(a) ==
    [country |-> a.country,
     days |-> IF IsNone(a.days) THEN DEFAULT_DAYS ELSE Val(a.days),
     saveplot |-> a.saveplot]

\* bool(args.country): None and "" are falsy
CountryGiven(a) == ~IsNone(a.country) /\ Val(a.country) # ""

\* a test "days < 0" sends 0 as the number 0
DaysParamStrictlyNegative(days) ==
    IF days < 0 THEN PyStr(<<"a", "l", "l">>) ELSE PyInt(days)

\* line 140
DaysParam(days) == IF days <= 0 THEN PyStr(<<"a", "l", "l">>) ELSE PyInt(days)

Init ==
    /\ pc = "global"
    /\ argv \in Argvs
    /\ args = ParseArgs(argv)
    /\ requests = <<>>
    /\ stdout = <<>>
    /\ exitCode = None
    /\ stage = NoStage
    /\ hist = None
    /\ plot = PlotIdle

\* sys.exit(code) or the return of main
Exit(code) == pc' = "done" /\ exitCode' = Some(code)

\* lines 117-122: the global summary, fetched and printed; any exception of
\* either is reported as a fetch failure and ends the process with code 1
GlobalStage ==
    /\ pc = "global"
    /\ requests' = Append(requests, fetch_global_summary)
    /\ \/ \E e \in FetchErrors :
            /\ stdout' = Append(stdout, TextLine("Failed to fetch global summary:", e))
            /\ stage' = [stage EXCEPT !.global = "fetch_failed"]
            /\ Exit(1)
       \/ \E data \in GlobalSummaries :
            LET out == pretty_print_global(data) IN
            IF IsNone(out.raised)
            THEN /\ stdout' = stdout \o out.printed
                 /\ stage' = [stage EXCEPT !.global = "ok"]
                 /\ pc' = "country"
                 /\ UNCHANGED exitCode
            ELSE /\ stdout' = (stdout \o out.printed)
                        \o <<TextLine("Failed to fetch global summary:", Val(out.raised))>>
                 /\ stage' = [stage EXCEPT !.global = "print_failed"]
                 /\ Exit(1)
    /\ UNCHANGED <<argv, args, hist, plot>>

\* an except clause without its return: main goes on to the historical stage
CountryExceptNoReturn(out, report) ==
    /\ stdout' = Append(out, report)
    /\ pc' = "historical"
    /\ UNCHANGED exitCode

\* no except clause: the exception leaves main, the interpreter prints the
\* traceback to stderr and exits with code 1
HistoricalExceptMissing(out, e) ==
    /\ stdout' = out
    /\ Exit(1)

\* lines 132-137: the except clauses of the country summary print the
\* report and return from main
CountryExcept(out, report) ==
    /\ stdout' = Append(out, report)
    /\ Exit(0)

\* lines 146-147: the except clause of the historical stage prints the
\* report; main then returns
HistoricalExcept(out, e) ==
    /\ stdout' = Append(out, TextLine("Could not fetch or plot historical data:", e))
    /\ Exit(0)

\* lines 124-126: no country, the hint line and return
NoCountry ==
    /\ pc = "country"
    /\ ~CountryGiven(args)
    /\ stdout' = Append(stdout, TextLine("No country specified.", ""))
    /\ Exit(0)
    /\ UNCHANGED <<argv, args, requests, stage, hist, plot>>

\* lines 128-137: the country summary, fetched and printed; an exception is
\* reported and main returns
CountryStage ==
    /\ pc = "country"
    /\ CountryGiven(args)
    /\ requests' = Append(requests, fetch_country_summary(Val(args.country)))
    /\ \/ \E e \in FetchErrors :
            /\ CountryExcept(stdout,
                    IF e = HTTPError
                    THEN TextLine("Error fetching country summary for", e)
                    ELSE TextLine("Unexpected error fetching country summary:", e))
            /\ stage' = [stage EXCEPT !.country = "fetch_failed"]
       \/ \E data \in CountrySummaries :
            LET out == pretty_print_country(data) IN
            IF IsNone(out.raised)
            THEN /\ stdout' = stdout \o out.printed
                 /\ stage' = [stage EXCEPT !.country = "ok"]
                 /\ pc' = "historical"
                 /\ UNCHANGED exitCode
            ELSE /\ CountryExcept(stdout \o out.printed,
                        TextLine("Unexpected error fetching country summary:",
                                 Val(out.raised)))
                 /\ stage' = [stage EXCEPT !.country = "print_failed"]
    /\ UNCHANGED <<argv, args, hist, plot>>

\* lines 139-147: the historical series, fetched and plotted; any exception
\* is reported and main returns
HistoricalStage ==
    /\ pc = "historical"
    /\ requests' = Append(requests,
            fetch_country_historical(Val(args.country), DaysParam(args.days)))
    /\ \/ \E e \in FetchErrors :
            /\ HistoricalExcept(stdout, e)
            /\ stage' = [stage EXCEPT !.historical = "fetch_failed"]
            /\ UNCHANGED <<hist, plot>>
       \/ \E json \in RunPayloads, render_ok \in BOOLEAN :
            LET label == IF ~IsNone(json.country) /\ Val(json.country) # ""
                         THEN Val(json.country) ELSE Val(args.country)
            IN  \E r \in plot_new_cases(json, args.saveplot, label, render_ok) :
                    /\ hist' = Some(json)
                    /\ plot' = r
                    /\ IF IsNone(r.raised)
                       THEN /\ stdout' = stdout \o r.printed
                            /\ stage' = [stage EXCEPT !.historical = "ok"]
                            /\ Exit(0)
                       ELSE /\ HistoricalExcept(stdout \o r.printed, Val(r.raised))
                            /\ stage' = [stage EXCEPT !.historical = "plot_failed"]
    /\ UNCHANGED <<argv, args>>

Next == GlobalStage \/ NoCountry \/ CountryStage \/ HistoricalStage

Spec == Init /\ [][Next]_vars

(***************************************************************************)
(* Properties of plot_new_cases, checked under PlotSpec.                   *)
(***************************************************************************)
\* plot_new_cases ran through the pipeline (lines 85-93) on its payload
Computed == plot.called /\ ~IsNone(plot.figure)

\* the cases curve plot_new_cases was given
InputCurve == Val(GetCases(Val(hist)))

ValuesOf(s) == [i \in 1..Len(s) |-> s[i].value]

\* C1: the daily-new-cases sequence has the length of the cumulative
\* sequence in ascending date order, its first value is 0 and every later
\* value is c[i] - c[i-1]; cases [10,10,12,15,15,20,25,30,30,31] give
\* deltas [0,0,2,3,0,5,5,5,0,1].
NewCasesAreFirstDifferences ==
    Computed =>
        /\ Len(plot.new_cases) = Len(plot.df)
        /\ plot.new_cases[1] = 0
        /\ \A i \in 2..Len(plot.df) :
              plot.new_cases[i] = plot.df[i].value - plot.df[i - 1].value
        /\ (ValuesOf(plot.df) = <<10, 10, 12, 15, 15, 20, 25, 30, 30, 31>>
              => plot.new_cases = <<0, 0, 2, 3, 0, 5, 5, 5, 0, 1>>)

ExampleDeltasReached ==
    /\ Computed
    /\ ValuesOf(InputCurve) = <<10, 10, 12, 15, 15, 20, 25, 30, 30, 31>>
    /\ plot.new_cases = <<0, 0, 2, 3, 0, 5, 5, 5, 0, 1>>

RECURSIVE SumRange(_, _, _)
SumRange(x, lo, hi) == IF lo > hi THEN 0 ELSE x[lo] + SumRange(x, lo + 1, hi)

\* C2: at every position i (counted from 0) a 7-day average is produced and
\* equals the sum of delta[max(0, i-6) .. i] divided by min(i+1, 7).
\* Positions are counted from 1 here, and the mean num/den is compared by
\* cross-multiplication.
RollingMeanIsWindowMean ==
    Computed =>
        /\ Len(plot.new_cases_7d) = Len(plot.new_cases)
        /\ \A i \in 1..Len(plot.new_cases) :
              /\ ~IsNone(plot.new_cases_7d[i])
              /\ LET mean == Val(plot.new_cases_7d[i])
                     n == IF i < 7 THEN i ELSE 7
                     lo == IF i - 6 > 1 THEN i - 6 ELSE 1
                 IN  /\ mean.den > 0
                     /\ mean.num * n = SumRange(plot.new_cases, lo, i) * mean.den

\* a series longer than the window, where a non-zero delta has left it
WindowSlidReached ==
    /\ Computed
    /\ \E i \in 8..Len(plot.new_cases) :
          /\ plot.new_cases[i - 7] # 0
          /\ Val(plot.new_cases_7d[i]).num
                = SumRange(plot.new_cases, i - 6, i)

\* the rearrangements of a curve: the same entries in another order
Shuffles(c) == {Take(c, p) : p \in Perms(Len(c))}

\* the (date, count) pair an entry stands for
PairOf(e) == [date |-> Val(ParseDate(e.key)), value |-> e.value]

DistinctDates(c) ==
    \A i, j \in 1..Len(c) : ParseDate(c[i].key) = ParseDate(c[j].key) => i = j

\* whatever the input order of the entries, sorting gives the sequence built
OrderIndependent(c) ==
    \A q \in Shuffles(c) : \A d \in SortIndex(Series(q)) : d = plot.df

\* C3 as stated: for entries with unique keys the sorted (date, count)
\* sequence is the same for every input order, ascending by date, each date
\* with its own count.  (Input orders are enumerated for curves of at most
\* MaxLen entries.)
SortedSameForAnyInputOrder ==
    (Computed /\ Len(InputCurve) <= MaxLen) =>
        /\ \A i \in 1..(Len(plot.df) - 1) : plot.df[i].date <= plot.df[i + 1].date
        /\ OrderIndependent(InputCurve)

\* C3, amended: for entries whose keys denote pairwise distinct calendar
\* dates, the sorted (date, count) sequence is strictly ascending by
\* calendar date, holds exactly the input's pairs, each date with its own
\* count, and is the same for every input order (enumerated for curves of
\* at most MaxLen entries).
SortedSameForAnyInputOrderOfDistinctDates ==
    (Computed /\ DistinctDates(InputCurve)) =>
        /\ Len(plot.df) = Len(InputCurve)
        /\ \A i \in 1..(Len(plot.df) - 1) : plot.df[i].date < plot.df[i + 1].date
        /\ \A i \in 1..Len(InputCurve) :
              \E j \in 1..Len(plot.df) : plot.df[j] = PairOf(InputCurve[i])
        /\ (Len(InputCurve) <= MaxLen => OrderIndependent(InputCurve))

\* three entries of distinct dates given latest first come out earliest first
ShuffledInputSorted ==
    /\ Computed
    /\ DistinctDates(InputCurve)
    /\ Len(InputCurve) = 3
    /\ PairOf(InputCurve[1]).date > PairOf(InputCurve[2]).date
    /\ PairOf(InputCurve[3]).date < PairOf(InputCurve[2]).date
    /\ plot.df = <<PairOf(InputCurve[3]), PairOf(InputCurve[2]), PairOf(InputCurve[1])>>

\* the dict plot_new_cases reads the curve from: the nested "timeline" if
\* the payload has a non-empty one, else the payload itself
SeriesMissing(j) ==
    LET nested == Len(j.timeline) = 1
                    /\ (Len(j.timeline[1].cases) = 1 \/ j.timeline[1].others)
        curve == IF nested THEN j.timeline[1].cases ELSE j.cases
    IN  Len(curve) = 0 \/ Len(curve[1]) = 0

\* C4: when the timeline has no cases curve, or an empty one, plot_new_cases
\* raises the "missing series" error and renders nothing: no figure, no
\* file written, no display opened.
MissingSeriesRaisesBeforeRendering ==
    (plot.called /\ SeriesMissing(Val(hist))) =>
        /\ plot.raised = Some("ValueError: No 'cases' data in historical data")
        /\ IsNone(plot.figure)
        /\ IsNone(plot.saved)
        /\ ~plot.shown
        /\ plot.printed = <<>>
        /\ stdout = <<>>

EmptyCasesCurveRejected ==
    /\ plot.called
    /\ Val(hist).timeline = Some([cases |-> Some(<<>>), others |-> TRUE])
    /\ plot.raised = Some("ValueError: No 'cases' data in historical data")
    /\ IsNone(plot.figure)

\* C9 as stated: every value of the daily-new-cases series is non-negative.
NewCasesNonNegative ==
    Computed => \A i \in 1..Len(plot.new_cases) : plot.new_cases[i] >= 0

\* C9, amended: a value of the daily-new-cases series is non-negative
\* exactly when it is the first or the cumulative count at its date is not
\* below the count at the preceding date; a curve that never decreases in
\* date order gives only non-negative values.
NewCasesNonNegativeUnlessCurveDecreases ==
    Computed =>
        \A i \in 1..Len(plot.new_cases) :
            (plot.new_cases[i] >= 0)
                <=> (i = 1 \/ plot.df[i].value >= plot.df[i - 1].value)

\* a curve that rises and then falls back
RiseAndFallReached ==
    /\ Computed
    /\ Len(plot.new_cases) = 3
    /\ plot.new_cases[2] > 0
    /\ plot.new_cases[3] < 0

(***************************************************************************)
(* Properties of a run of main, checked under Spec.                        *)
(***************************************************************************)
Tags(lines) == [i \in 1..Len(lines) |-> lines[i].tag]

Ops == [i \in 1..Len(requests) |-> requests[i].op]

GlobalBlock ==
    <<"Global summary:", "  Updated", "  Cases", "  Today Cases", "  Deaths",
      "  Today Deaths", "  Recovered", "  Active", "  Critical">>

CountryBlock ==
    <<"summary:", "  Updated", "  Cases (Today)", "  Deaths (Today)",
      "  Recovered", "  Active", "  Tests", "  Population">>

HistoricalReport == "Could not fetch or plot historical data:"

CountryReports ==
    {"Error fetching country summary for", "Unexpected error fetching country summary:"}

IsPrefix(a, b) == Len(a) <= Len(b) /\ SubSeq(b, 1, Len(a)) = a

\* C5: the process exits with code 1 if the global summary fetch fails,
\* after printing an error line that mentions the failure, and with code 0
\* otherwise; a country or historical failure leaves the code at 0.
ExitOneIffGlobalFetchFails ==
    pc = "done" =>
        /\ ~IsNone(exitCode)
        /\ (Val(exitCode) = 1) <=> (stage.global = "fetch_failed")
        /\ (stage.global # "fetch_failed") => (Val(exitCode) = 0)
        /\ (stage.global = "fetch_failed") =>
              /\ stdout[Len(stdout)].tag = "Failed to fetch global summary:"
              /\ stdout[Len(stdout)].arg \in FetchErrors

\* C6: pretty_print_global and pretty_print_country do not raise when a
\* counter key is absent from the record: once a summary has been fetched,
\* every line of its block is printed.
FormattersTolerateMissingCounters ==
    /\ stage.global \notin {"pending", "fetch_failed"} =>
          /\ stage.global = "ok"
          /\ IsPrefix(GlobalBlock, Tags(stdout))
    /\ stage.country \notin {"pending", "fetch_failed"} =>
          /\ stage.country = "ok"
          /\ IsPrefix(GlobalBlock \o CountryBlock, Tags(stdout))

\* C7: whenever the historical fetch or plot fails, the global summary and
\* the country summary have both been printed in full before, the failure
\* is reported on the console as the last line, and the run ends normally
\* (exit code 0, no uncaught exception).
HistoricalFailureAfterSummaries ==
    stage.historical \in {"fetch_failed", "plot_failed"} =>
        /\ Tags(stdout) = (GlobalBlock \o CountryBlock) \o <<HistoricalReport>>
        /\ stdout[Len(stdout)].arg # ""
        /\ pc = "done"
        /\ exitCode = Some(0)

\* a date key that does not parse stops the plot, after both summaries
DateParsingFailureReported ==
    /\ stage.historical = "plot_failed"
    /\ plot.raised = Some("ValueError: time data does not match format")
    /\ stdout[Len(stdout)] = TextLine(HistoricalReport,
                                      "ValueError: time data does not match format")
    /\ exitCode = Some(0)

\* C8: the lastdays parameter of the historical request is "all" exactly
\* when the --days value is zero or negative, and the decimal text of the
\* value when it is positive (365 when the flag is omitted).
LastdaysAllIffDaysNotPositive ==
    \A i \in 1..Len(requests) :
        requests[i].op = "historical" =>
            LET given == IF Len(argv.days) = 0 THEN 365 ELSE argv.days[1]
                value == requests[i].value
            IN  /\ requests[i].param = "lastdays"
                /\ (value = <<"a", "l", "l">>) <=> (given <= 0)
                /\ (given > 0) =>
                      /\ AllDigits(value)
                      /\ DecimalValue(value) = given

ZeroDaysAsksForAll ==
    /\ argv.days = Some(0)
    /\ Len(requests) = 3
    /\ requests[3].op = "historical"
    /\ requests[3].value = <<"a", "l", "l">>

\* C10: the historical request is issued only if a country was given and
\* its summary was fetched and printed without error; with no country the
\* run stops after the global summary and the hint line, and after a
\* country-summary failure it stops after the report, in both cases without
\* a further request (and without a plot).
HistoricalOnlyAfterCountrySummary ==
    /\ (\E i \in 1..Len(requests) : requests[i].op = "historical") =>
          /\ Len(argv.country) = 1 /\ argv.country[1] # ""
          /\ stage.country = "ok"
          /\ IsPrefix(GlobalBlock \o CountryBlock, Tags(stdout))
          /\ Ops = <<"all", "countries", "historical">>
    /\ (pc = "done" /\ stage.global = "ok"
            /\ (Len(argv.country) = 0 \/ argv.country = Some(""))) =>
          /\ Ops = <<"all">>
          /\ Tags(stdout) = GlobalBlock \o <<"No country specified.">>
          /\ ~plot.called
    /\ (stage.country \in {"fetch_failed", "print_failed"}) =>
          /\ pc = "done"
          /\ Ops = <<"all", "countries">>
          /\ stdout[Len(stdout)].tag \in CountryReports
          /\ stage.historical = "pending"
          /\ ~plot.called

CountryFailureStopsRun ==
    /\ pc = "done"
    /\ stage.country = "fetch_failed"
    /\ Ops = <<"all", "countries">>
    /\ stdout[Len(stdout)].tag = "Error fetching country summary for"

====
